---------------------------- MODULE Spec2Model ----------------------------
(***************************************************************************)
(* Brainfucker: a Brainfuck-to-LLVM compiler (src/src/codegen.rs and       *)
(* src/src/main.rs).                                                       *)
(*                                                                         *)
(* The model has three parts.                                              *)
(*   1. The translator: Codegen::generate, one action per gen_* handler,   *)
(*      building the basic blocks of the emitted `main` function           *)
(*      instruction by instruction, with the builder's insertion block     *)
(*      and the loop stack.                                                *)
(*   2. The emitted program: an interpreter of the emitted instructions    *)
(*      (one action step per LLVM instruction) over the tape, the counter  *)
(*      slot, stdin and stdout.                                            *)
(*   3. The driver: main() from the call of compile_module to its return   *)
(*      (object file, linker, removal of the object file).                 *)
(*                                                                         *)
(* The optimisation passes of run_passes are semantics preserving and are  *)
(* not modelled; calloc is taken to succeed.  A load or store outside the  *)
(* tape, or after its release, is undefined behaviour: the run stops in    *)
(* run = "undefined" with the kind of fault recorded, a state that stands  *)
(* for every outcome the build may produce and about which nothing is      *)
(* asserted.                                                               *)
(***************************************************************************)
EXTENDS Integers, Sequences, FiniteSets

\* ------------------------------------------------------------------ bounds

\* Longest source text of the translator-only specification.
MaxLen == 4
\* Longest source text of the specification that also runs the emitted program.
MaxRunLen == 3
\* Longest source text of the driver specification.
MaxMainLen == 3
\* Tape length (heap_size) used where it is not the default.
SmallHeap == 2
\* Most bytes standard input holds before end of input.
MaxIn == 1
\* Most bytes the model lets the emitted program write to standard output.
MaxOut == 16

\* --------------------------------------------------------- program constants

\* Default tape length of the command line.
DefaultHeap == 30000
\* Cell values are i8: arithmetic is modulo 2^8.
CellMod == 256
\* The counter is an i32: the largest value it holds.
IntMax == 2147483647
\* getchar's end-of-input value.
EOF == -1

\* The eight primitives and one representative of every other character.
Primitives == {">", "<", "+", "-", ".", ",", "[", "]"}
Alphabet == Primitives \cup {"x"}

\* The classical program of the end-to-end scenario.
HelloSource ==
  <<"+","+","+","+","+","+","+","+","[",">","+","+","+","+","[",">","+","+",
    ">","+","+","+",">","+","+","+",">","+","<","<","<","<","-","]",">","+",
    ">","+",">","-",">",">","+","[","<","]","<","-","]",">",">",".",">","-",
    "-","-",".","+","+","+","+","+","+","+",".",".","+","+","+",".">>

SeqsUpTo(S, n) == UNION {[1..k -> S] : k \in 0..n}

VARIABLES
  code,        \* the source text, a sequence of characters
  heap_size,   \* the tape length given to generate
  stdin,       \* the bytes standard input holds
  compile_only,\* the --compile flag
  pos,         \* number of characters generate has scanned
  blocks,      \* the basic blocks of main, in order of creation
  cur,         \* the builder's insertion block
  loop_stack,  \* Codegen.loop_stack: blocks of the loops still open
  gen,         \* "start", "scan", "done" (generate returned), "panicked"
  xpc,         \* the running program's position: <<block, instruction>>
  counter,     \* the counter slot (the pointer register)
  tape,        \* the calloc'ed buffer: the cells written so far, the
               \* others still holding calloc's zero
  tape_len,    \* the buffer's length in bytes, 0 before calloc
  mem,         \* "none", "live", "freed"
  regs,        \* the SSA values of the instruction group being executed
  out,         \* bytes written to standard output
  inpos,       \* bytes read from standard input
  nfree,       \* number of calls of free
  run,         \* "running", "returned", "undefined"
  retval,      \* the status main returned, -1 before it returns
  fault,       \* "none", "out_of_bounds", "use_after_free"
  mainpc,      \* main's position
  obj,         \* the object file: "absent", "written", "removed"
  ld           \* the linker's outcome: "none", "nostart", "zero", "nonzero"

inputVars == <<code, heap_size, stdin, compile_only>>
genVars == <<pos, blocks, cur, loop_stack, gen>>
runVars == <<xpc, counter, tape, tape_len, mem, regs, out, inpos, nfree, run, fault, retval>>
mainVars == <<mainpc, obj, ld>>
vars == <<inputVars, genVars, runVars, mainVars>>

\* ------------------------------------------------------- the emitted program

\* One emitted instruction: its opcode, its LLVM value name, the position of
\* the source character whose handler emitted it (0: startup, Len(code)+1:
\* finalisation), and two operands (branch targets or constants).
Inst(op, name, src, a, b) == [op |-> op, name |-> name, src |-> src, a |-> a, b |-> b]

Block(name, src) == [name |-> name, src |-> src, insts |-> <<>>]

\* Builder::build_*: append to the insertion block.
Emit(bs, b, is) == [bs EXCEPT ![b].insts = @ \o is]

\* Context::append_basic_block
AppendBlock(bs, name, src) == Append(bs, Block(name, src))

\* get_cell_ptr: load the counter, index the tape with it.
CellPtr(src) ==
  << Inst("load_counter", "counter_load", src, 0, 0),
     Inst("gep", "get_cell_ptr", src, 0, 0) >>

Terminators == {"br", "condbr", "ret"}

\* ------------------------------------------------------------- the translator

\* The character generate dispatches next.
Ch == code[pos + 1]

Scanning == gen = "scan" /\ pos < Len(code)

\* gen_startup, the first thing generate does.
GenStartup ==
  /\ gen = "start"
  /\ blocks' = Emit(blocks, cur,
       << Inst("alloca", "counter_alloc", 0, 0, 0),
          Inst("store_counter_zero", "", 0, 0, 0),
          Inst("call_calloc", "calloc", 0, heap_size, 1) >>)
  /\ gen' = "scan"
  /\ UNCHANGED <<pos, cur, loop_stack, inputVars, runVars, mainVars>>

GenMoveRight ==
  /\ Scanning /\ Ch = ">"
  /\ blocks' = Emit(blocks, cur,
       << Inst("load_counter", "mr_counter_load", pos + 1, 0, 0),
          Inst("add_i32", "inc_counter", pos + 1, 1, 0),
          Inst("store_counter", "", pos + 1, 0, 0) >>)
  /\ pos' = pos + 1
  /\ UNCHANGED <<cur, loop_stack, gen, inputVars, runVars, mainVars>>

GenMoveLeft ==
  /\ Scanning /\ Ch = "<"
  /\ blocks' = Emit(blocks, cur,
       << Inst("load_counter", "ml_counter_load", pos + 1, 0, 0),
          Inst("sub_i32", "dec_counter", pos + 1, 1, 0),
          Inst("store_counter", "", pos + 1, 0, 0) >>)
  /\ pos' = pos + 1
  /\ UNCHANGED <<cur, loop_stack, gen, inputVars, runVars, mainVars>>

GenOutput ==
  /\ Scanning /\ Ch = "."
  /\ blocks' = Emit(blocks, cur, CellPtr(pos + 1) \o
       << Inst("load_cell", "outp_load_cell", pos + 1, 0, 0),
          Inst("zext", "outp_zero_ext", pos + 1, 0, 0),
          Inst("call_putchar", "putchar", pos + 1, 0, 0) >>)
  /\ pos' = pos + 1
  /\ UNCHANGED <<cur, loop_stack, gen, inputVars, runVars, mainVars>>

GenInput ==
  /\ Scanning /\ Ch = ","
  /\ blocks' = Emit(blocks, cur, CellPtr(pos + 1) \o
       << Inst("call_getchar", "getchar", pos + 1, 0, 0),
          Inst("trunc", "inp_trunc", pos + 1, 0, 0),
          Inst("store_cell", "", pos + 1, 0, 0) >>)
  /\ pos' = pos + 1
  /\ UNCHANGED <<cur, loop_stack, gen, inputVars, runVars, mainVars>>

GenIncrementCell ==
  /\ Scanning /\ Ch = "+"
  /\ blocks' = Emit(blocks, cur, CellPtr(pos + 1) \o
       << Inst("load_cell", "inc_load_cell", pos + 1, 0, 0),
          Inst("add_i8", "inc_value", pos + 1, 1, 0),
          Inst("store_cell", "", pos + 1, 0, 0) >>)
  /\ pos' = pos + 1
  /\ UNCHANGED <<cur, loop_stack, gen, inputVars, runVars, mainVars>>

\* Faulty variant of gen_decrement_cell: the copied increment, its add left
\* in place.
GenDecrementCell_Adds ==
  /\ Scanning /\ Ch = "-"
  /\ blocks' = Emit(blocks, cur, CellPtr(pos + 1) \o
       << Inst("load_cell", "inc_load_cell", pos + 1, 0, 0),
          Inst("add_i8", "dec_value", pos + 1, 1, 0),
          Inst("store_cell", "", pos + 1, 0, 0) >>)
  /\ pos' = pos + 1
  /\ UNCHANGED <<cur, loop_stack, gen, inputVars, runVars, mainVars>>

GenDecrementCell ==
  /\ Scanning /\ Ch = "-"
  /\ blocks' = Emit(blocks, cur, CellPtr(pos + 1) \o
       << Inst("load_cell", "inc_load_cell", pos + 1, 0, 0),
          Inst("sub_i8", "dec_value", pos + 1, 1, 0),
          Inst("store_cell", "", pos + 1, 0, 0) >>)
  /\ pos' = pos + 1
  /\ UNCHANGED <<cur, loop_stack, gen, inputVars, runVars, mainVars>>

\* Faulty variant of gen_loop_entry: the jump into the new block is not
\* emitted.
GenLoopEntry_NoBranch ==
  /\ Scanning /\ Ch = "["
  /\ LET loop_block == Len(blocks) + 1
     IN /\ blocks' = AppendBlock(blocks, "loop", pos + 1)
        /\ cur' = loop_block
        /\ loop_stack' = Append(loop_stack, loop_block)
  /\ pos' = pos + 1
  /\ UNCHANGED <<gen, inputVars, runVars, mainVars>>

\* Faulty variant of gen_loop_entry: the new block is not pushed.
GenLoopEntry_NoPush ==
  /\ Scanning /\ Ch = "["
  /\ LET loop_block == Len(blocks) + 1
     IN /\ blocks' = Emit(AppendBlock(blocks, "loop", pos + 1), cur,
                          << Inst("br", "", pos + 1, loop_block, 0) >>)
        /\ cur' = loop_block
  /\ pos' = pos + 1
  /\ UNCHANGED <<loop_stack, gen, inputVars, runVars, mainVars>>

\* gen_loop_entry: a new block "loop", a jump into it, the builder moved to
\* it, the block pushed.
GenLoopEntry ==
  /\ Scanning /\ Ch = "["
  /\ LET loop_block == Len(blocks) + 1
     IN /\ blocks' = Emit(AppendBlock(blocks, "loop", pos + 1), cur,
                          << Inst("br", "", pos + 1, loop_block, 0) >>)
        /\ cur' = loop_block
        /\ loop_stack' = Append(loop_stack, loop_block)
  /\ pos' = pos + 1
  /\ UNCHANGED <<gen, inputVars, runVars, mainVars>>

\* gen_loop_end up to its pop: the blocks with the load of the cell and its
\* comparison with zero emitted and the block "loop_after" appended.
LoopEndTested ==
  Emit(AppendBlock(blocks, "loop_after", pos + 1), cur,
       CellPtr(pos + 1) \o
       << Inst("load_cell", "loop_load_cell", pos + 1, 0, 0),
          Inst("icmp_ne", "zero_cmp", pos + 1, 0, 0) >>)

\* Faulty variant of gen_loop_end: an empty loop stack is not noticed
\* (pop().unwrap_or(current block)), and the branch is emitted all the same.
GenLoopEnd_NoEmptyCheck ==
  /\ Scanning /\ Ch = "]"
  /\ LET after_block == Len(blocks) + 1
         loop_block == IF loop_stack = <<>> THEN cur ELSE loop_stack[Len(loop_stack)]
     IN /\ blocks' = Emit(LoopEndTested, cur,
             << Inst("condbr", "", pos + 1, loop_block, after_block) >>)
        /\ loop_stack' = IF loop_stack = <<>> THEN <<>>
                         ELSE SubSeq(loop_stack, 1, Len(loop_stack) - 1)
        /\ cur' = after_block
        /\ pos' = pos + 1
  /\ UNCHANGED <<gen, inputVars, runVars, mainVars>>

\* Faulty variant of gen_loop_end: the arms of the branch are exchanged.
GenLoopEnd_SwappedArms ==
  /\ Scanning /\ Ch = "]"
  /\ LET after_block == Len(blocks) + 1
     IN IF loop_stack = <<>>
        THEN /\ blocks' = LoopEndTested
             /\ gen' = "panicked"
             /\ UNCHANGED <<pos, cur, loop_stack>>
        ELSE LET loop_block == loop_stack[Len(loop_stack)]
             IN /\ blocks' = Emit(LoopEndTested, cur,
                      << Inst("condbr", "", pos + 1, after_block, loop_block) >>)
                /\ loop_stack' = SubSeq(loop_stack, 1, Len(loop_stack) - 1)
                /\ cur' = after_block
                /\ pos' = pos + 1
                /\ UNCHANGED gen
  /\ UNCHANGED <<inputVars, runVars, mainVars>>

\* Faulty variant of gen_loop_end: the oldest open loop is taken from the
\* stack instead of the most recent one.
GenLoopEnd_PopsOldest ==
  /\ Scanning /\ Ch = "]"
  /\ LET after_block == Len(blocks) + 1
     IN IF loop_stack = <<>>
        THEN /\ blocks' = LoopEndTested
             /\ gen' = "panicked"
             /\ UNCHANGED <<pos, cur, loop_stack>>
        ELSE LET loop_block == loop_stack[1]
             IN /\ blocks' = Emit(LoopEndTested, cur,
                      << Inst("condbr", "", pos + 1, loop_block, after_block) >>)
                /\ loop_stack' = Tail(loop_stack)
                /\ cur' = after_block
                /\ pos' = pos + 1
                /\ UNCHANGED gen
  /\ UNCHANGED <<inputVars, runVars, mainVars>>

\* gen_loop_end: the cell is loaded and compared with zero, the block
\* "loop_after" is appended, and then the loop stack is popped; pop().unwrap()
\* panics on an empty stack, after those emissions and before the branch.
GenLoopEnd ==
  /\ Scanning /\ Ch = "]"
  /\ LET after_block == Len(blocks) + 1
         tested == LoopEndTested
     IN IF loop_stack = <<>>
        THEN /\ blocks' = tested
             /\ gen' = "panicked"
             /\ UNCHANGED <<pos, cur, loop_stack>>
        ELSE LET loop_block == loop_stack[Len(loop_stack)]
             IN /\ blocks' = Emit(tested, cur,
                      << Inst("condbr", "", pos + 1, loop_block, after_block) >>)
                /\ loop_stack' = SubSeq(loop_stack, 1, Len(loop_stack) - 1)
                /\ cur' = after_block
                /\ pos' = pos + 1
                /\ UNCHANGED gen
  /\ UNCHANGED <<inputVars, runVars, mainVars>>

\* Faulty variant of the `_ => {}` arm: an unknown character moves the
\* pointer.
GenSkip_Emits ==
  /\ Scanning /\ Ch \notin Primitives
  /\ blocks' = Emit(blocks, cur,
       << Inst("load_counter", "mr_counter_load", pos + 1, 0, 0),
          Inst("add_i32", "inc_counter", pos + 1, 1, 0),
          Inst("store_counter", "", pos + 1, 0, 0) >>)
  /\ pos' = pos + 1
  /\ UNCHANGED <<cur, loop_stack, gen, inputVars, runVars, mainVars>>

\* The `_ => {}` arm: every other character is skipped.
GenSkip ==
  /\ Scanning /\ Ch \notin Primitives
  /\ pos' = pos + 1
  /\ UNCHANGED <<blocks, cur, loop_stack, gen, inputVars, runVars, mainVars>>

\* Faulty variant of gen_exit: the tape is not released.
GenExit_NoFree ==
  /\ gen = "scan" /\ pos = Len(code)
  /\ blocks' = Emit(blocks, cur, << Inst("ret", "", Len(code) + 1, 0, 0) >>)
  /\ gen' = "done"
  /\ UNCHANGED <<pos, cur, loop_stack, inputVars, runVars, mainVars>>

\* gen_exit, after the last character: free the tape, return 0; generate
\* returns.
GenExit ==
  /\ gen = "scan" /\ pos = Len(code)
  /\ blocks' = Emit(blocks, cur,
       << Inst("call_free", "free", Len(code) + 1, 0, 0),
          Inst("ret", "", Len(code) + 1, 0, 0) >>)
  /\ gen' = "done"
  /\ UNCHANGED <<pos, cur, loop_stack, inputVars, runVars, mainVars>>


\* ------------------------------------------------- running the emitted program

\* i32 addition and subtraction of a small non-negative constant, wrapping.
IntMin == (0 - IntMax) - 1
AddI32(x, a) == IF x > IntMax - a THEN IntMin + ((a - (IntMax - x)) - 1) ELSE x + a
SubI32(x, a) == IF x < IntMin + a THEN IntMax - ((a - (x - IntMin)) - 1) ELSE x - a

\* What an uninitialised alloca slot may hold.
UninitVals == {0, 7}

CurBlock == blocks[xpc[1]]
AtInst == xpc[2] <= Len(CurBlock.insts)
CurInst == CurBlock.insts[xpc[2]]
NextPc == <<xpc[1], xpc[2] + 1>>

\* A load or store of the cell regs.addr: defined only inside the live tape.
CellFault ==
  IF mem = "freed" THEN "use_after_free"
  ELSE IF mem = "live" /\ regs.addr \in 0..(tape_len - 1) THEN "none"
  ELSE "out_of_bounds"

\* The byte in cell a of the tape.
Cell(a) == IF a \in DOMAIN tape THEN tape[a] ELSE 0

\* The tape with v stored in cell a.
Stored(a, v) == [c \in DOMAIN tape \cup {a} |-> IF c = a THEN v ELSE tape[c]]

\* getchar: the next byte of standard input, or EOF.
GetChar == IF inpos < Len(stdin) THEN stdin[inpos + 1] ELSE EOF

Undefined(f) ==
  /\ run' = "undefined"
  /\ fault' = f
  /\ UNCHANGED <<xpc, counter, tape, tape_len, mem, regs, out, inpos, nfree, retval>>

\* One instruction of the emitted main function.
ExecInst ==
  /\ gen = "done" /\ run = "running"
  /\ UNCHANGED <<inputVars, genVars, mainVars>>
  /\ IF ~AtInst THEN Undefined("no_terminator") ELSE
     LET i == CurInst IN
     CASE i.op = "alloca" ->
            /\ counter' \in UninitVals
            /\ xpc' = NextPc
            /\ UNCHANGED <<tape, tape_len, mem, regs, out, inpos, nfree, run, fault, retval>>
       [] i.op = "store_counter_zero" ->
            /\ counter' = 0
            /\ xpc' = NextPc
            /\ UNCHANGED <<tape, tape_len, mem, regs, out, inpos, nfree, run, fault, retval>>
       [] i.op = "call_calloc" ->
            /\ tape' = <<>>
            /\ tape_len' = i.a * i.b
            /\ mem' = "live"
            /\ xpc' = NextPc
            /\ UNCHANGED <<counter, regs, out, inpos, nfree, run, fault, retval>>
       [] i.op = "load_counter" ->
            /\ regs' = [regs EXCEPT !.idx = counter]
            /\ xpc' = NextPc
            /\ UNCHANGED <<counter, tape, tape_len, mem, out, inpos, nfree, run, fault, retval>>
       [] i.op = "add_i32" ->
            /\ regs' = [regs EXCEPT !.idx = AddI32(@, i.a)]
            /\ xpc' = NextPc
            /\ UNCHANGED <<counter, tape, tape_len, mem, out, inpos, nfree, run, fault, retval>>
       [] i.op = "sub_i32" ->
            /\ regs' = [regs EXCEPT !.idx = SubI32(@, i.a)]
            /\ xpc' = NextPc
            /\ UNCHANGED <<counter, tape, tape_len, mem, out, inpos, nfree, run, fault, retval>>
       [] i.op = "store_counter" ->
            /\ counter' = regs.idx
            /\ xpc' = NextPc
            /\ UNCHANGED <<tape, tape_len, mem, regs, out, inpos, nfree, run, fault, retval>>
       [] i.op = "gep" ->
            /\ regs' = [regs EXCEPT !.addr = regs.idx]
            /\ xpc' = NextPc
            /\ UNCHANGED <<counter, tape, tape_len, mem, out, inpos, nfree, run, fault, retval>>
       [] i.op = "load_cell" ->
            IF CellFault /= "none" THEN Undefined(CellFault) ELSE
            /\ regs' = [regs EXCEPT !.val = Cell(regs.addr)]
            /\ xpc' = NextPc
            /\ UNCHANGED <<counter, tape, tape_len, mem, out, inpos, nfree, run, fault, retval>>
       [] i.op = "store_cell" ->
            IF CellFault /= "none" THEN Undefined(CellFault) ELSE
            /\ tape' = Stored(regs.addr, regs.val)
            /\ xpc' = NextPc
            /\ UNCHANGED <<counter, tape_len, mem, regs, out, inpos, nfree, run, fault, retval>>
       [] i.op = "add_i8" ->
            /\ regs' = [regs EXCEPT !.val = (@ + i.a) % CellMod]
            /\ xpc' = NextPc
            /\ UNCHANGED <<counter, tape, tape_len, mem, out, inpos, nfree, run, fault, retval>>
       [] i.op = "sub_i8" ->
            /\ regs' = [regs EXCEPT !.val = (@ - i.a) % CellMod]
            /\ xpc' = NextPc
            /\ UNCHANGED <<counter, tape, tape_len, mem, out, inpos, nfree, run, fault, retval>>
       [] i.op = "zext" ->
            /\ regs' = [regs EXCEPT !.ext = regs.val]
            /\ xpc' = NextPc
            /\ UNCHANGED <<counter, tape, tape_len, mem, out, inpos, nfree, run, fault, retval>>
       [] i.op = "trunc" ->
            /\ regs' = [regs EXCEPT !.val = regs.ext % CellMod]
            /\ xpc' = NextPc
            /\ UNCHANGED <<counter, tape, tape_len, mem, out, inpos, nfree, run, fault, retval>>
       [] i.op = "call_putchar" ->
            /\ Len(out) < MaxOut
            /\ out' = Append(out, regs.ext % CellMod)
            /\ xpc' = NextPc
            /\ UNCHANGED <<counter, tape, tape_len, mem, regs, inpos, nfree, run, fault, retval>>
       [] i.op = "call_getchar" ->
            /\ regs' = [regs EXCEPT !.ext = GetChar]
            /\ inpos' = IF inpos < Len(stdin) THEN inpos + 1 ELSE inpos
            /\ xpc' = NextPc
            /\ UNCHANGED <<counter, tape, tape_len, mem, out, nfree, run, fault, retval>>
       [] i.op = "icmp_ne" ->
            /\ regs' = [regs EXCEPT !.cmp = (regs.val /= 0)]
            /\ xpc' = NextPc
            /\ UNCHANGED <<counter, tape, tape_len, mem, out, inpos, nfree, run, fault, retval>>
       [] i.op = "br" ->
            /\ xpc' = <<i.a, 1>>
            /\ UNCHANGED <<counter, tape, tape_len, mem, regs, out, inpos, nfree, run, fault, retval>>
       [] i.op = "condbr" ->
            /\ xpc' = <<IF regs.cmp THEN i.a ELSE i.b, 1>>
            /\ UNCHANGED <<counter, tape, tape_len, mem, regs, out, inpos, nfree, run, fault, retval>>
       [] i.op = "call_free" ->
            /\ mem' = "freed"
            /\ nfree' = nfree + 1
            /\ xpc' = NextPc
            /\ UNCHANGED <<counter, tape, tape_len, regs, out, inpos, run, fault, retval>>
       [] i.op = "ret" ->
            /\ run' = "returned"
            /\ retval' = i.a
            /\ UNCHANGED <<xpc, counter, tape, tape_len, mem, regs, out, inpos, nfree, fault>>

\* ------------------------------------------------------------------ the driver

\* main, after compile_module has returned: write the object file.
WriteObject ==
  /\ mainpc = "compile" /\ gen = "done"
  /\ \/ /\ obj' = "written"
        /\ mainpc' = IF compile_only THEN "ok" ELSE "link"
     \/ /\ mainpc' = "err"
        /\ UNCHANGED obj
  /\ UNCHANGED <<ld, inputVars, genVars, runVars>>

\* Command::new("ld")...status().context(..)?: the linker cannot be started
\* (main returns the error at once), or runs and exits zero or non-zero.
RunLinker ==
  /\ mainpc = "link"
  /\ \E o \in {"nostart", "zero", "nonzero"} :
       /\ ld' = o
       /\ mainpc' = IF o = "nostart" THEN "err" ELSE "remove"
  /\ UNCHANGED <<obj, inputVars, genVars, runVars>>

\* fs::remove_file(&obj_path)?, then the check of the linker's status.
RemoveObject ==
  /\ mainpc = "remove"
  /\ \/ /\ obj' = "removed"
        /\ mainpc' = IF ld = "zero" THEN "ok" ELSE "err"
     \/ /\ mainpc' = "err"
        /\ UNCHANGED obj
  /\ UNCHANGED <<ld, inputVars, genVars, runVars>>

\* ----------------------------------------------------------- specifications

\* compile_module: the function main with its block "entry", the builder at
\* its end, an empty loop stack; the emitted program not yet started.
InitWith(codes, heaps, inputs) ==
  /\ code \in codes
  /\ heap_size \in heaps
  /\ stdin \in inputs
  /\ compile_only \in BOOLEAN
  /\ pos = 0
  /\ blocks = << Block("entry", 0) >>
  /\ cur = 1
  /\ loop_stack = <<>>
  /\ gen = "start"
  /\ xpc = <<1, 1>>
  /\ counter = 0
  /\ tape = <<>>
  /\ tape_len = 0
  /\ mem = "none"
  /\ regs = [idx |-> 0, addr |-> 0, val |-> 0, ext |-> 0, cmp |-> FALSE]
  /\ out = <<>>
  /\ inpos = 0
  /\ nfree = 0
  /\ run = "running"
  /\ fault = "none"
  /\ retval = -1
  /\ mainpc = "compile"
  /\ obj = "absent"
  /\ ld = "none"

Generate ==
  \/ GenStartup
  \/ GenMoveRight
  \/ GenMoveLeft
  \/ GenIncrementCell
  \/ GenDecrementCell
  \/ GenOutput
  \/ GenInput
  \/ GenLoopEntry
  \/ GenLoopEnd
  \/ GenSkip
  \/ GenExit

\* The translator alone, on every source text of at most MaxLen characters.
Init == InitWith(SeqsUpTo(Alphabet, MaxLen), {SmallHeap}, {<<>>}) /\ ~compile_only
Next == Generate
Spec == Init /\ [][Next]_vars


\* The bytes the model puts on standard input.
InputBytes == {0, 1, 255}

Range(f) == {f[k] : k \in DOMAIN f}

\* Standard input matters only to a program that reads it.
InputsFor(c, ins) == IF "," \in Range(c) THEN ins ELSE {<<>>}

\* The translator and then the emitted program, on every source text of at
\* most MaxRunLen characters.
InitRun ==
  /\ InitWith(SeqsUpTo(Alphabet, MaxRunLen), {SmallHeap}, SeqsUpTo(InputBytes, MaxIn))
  /\ stdin \in InputsFor(code, SeqsUpTo(InputBytes, MaxIn))
  /\ ~compile_only
NextRun == Generate \/ ExecInst
SpecRun == InitRun /\ [][NextRun]_vars

\* The end-to-end scenario: the classical program with the default tape.
InitHello == InitWith({HelloSource}, {DefaultHeap}, {<<>>}) /\ ~compile_only
NextHello ==
  \/ GenStartup
  \/ GenMoveRight
  \/ GenMoveLeft
  \/ GenIncrementCell
  \/ GenDecrementCell
  \/ GenOutput
  \/ GenLoopEntry
  \/ GenLoopEnd
  \/ GenExit
  \/ ExecInst
\* The emitted program is sequential code run by one process: a step that is
\* possible is eventually taken.
SpecHello == InitHello /\ [][NextHello]_vars /\ WF_vars(NextHello)

\* `,+-` and `,-+`: a cell read from standard input, every byte value and
\* end of input, then incremented and decremented.
IncDecSources == { <<",", "+", "-">>, <<",", "-", "+">> }
InitIncDec ==
  /\ InitWith(IncDecSources, {SmallHeap}, {<<>>} \cup {<<v>> : v \in 0..(CellMod - 1)})
  /\ ~compile_only
NextIncDec ==
  \/ GenStartup
  \/ GenIncrementCell
  \/ GenDecrementCell
  \/ GenInput
  \/ GenExit
  \/ ExecInst
SpecIncDec == InitIncDec /\ [][NextIncDec]_vars

\* The driver: translation, the object file, the linker.
InitMain == InitWith(SeqsUpTo(Alphabet, MaxMainLen), {DefaultHeap}, {<<>>})
NextMain == Generate \/ WriteObject \/ RunLinker \/ RemoveObject
SpecMain == InitMain /\ [][NextMain]_vars


\* ------------------------------------------------- the syntax of source texts

\* Number of `[` minus number of `]` among the first k characters of c.
RECURSIVE Depth(_, _)
Depth(c, k) ==
  IF k = 0 THEN 0
  ELSE Depth(c, k - 1) + (IF c[k] = "[" THEN 1 ELSE IF c[k] = "]" THEN -1 ELSE 0)

\* No `]` without an open `[` before it.
NoExtraClose(c) == \A k \in 0..Len(c) : Depth(c, k) >= 0

Balanced(c) == NoExtraClose(c) /\ Depth(c, Len(c)) = 0

\* The first `]` met with no `[` open.
FirstExtraClose(c, j) ==
  /\ c[j] = "]"
  /\ Depth(c, j - 1) = 0
  /\ \A k \in 0..(j - 1) : Depth(c, k) >= 0

\* The `[` that the `]` at j closes, and the `]` that closes the `[` at i.
MatchOpen(c, j) ==
  CHOOSE i \in 1..(j - 1) :
    /\ c[i] = "["
    /\ Depth(c, i) = Depth(c, j - 1)
    /\ \A k \in i..(j - 1) : Depth(c, k) >= Depth(c, i)
HasClose(c, i, j) ==
  /\ c[j] = "]"
  /\ Depth(c, j) = Depth(c, i) - 1
  /\ \A k \in i..(j - 1) : Depth(c, k) >= Depth(c, i)
IsClosed(c, i) == \E j \in (i + 1)..Len(c) : HasClose(c, i, j)
MatchClose(c, i) == CHOOSE j \in (i + 1)..Len(c) : HasClose(c, i, j)

\* The `[` among the first p characters that are still open after them.
OpenAt(c, p) ==
  {i \in 1..p : c[i] = "[" /\ \A k \in i..p : Depth(c, k) >= Depth(c, i)}

\* --------------------------------------------------- views of the emitted program

InstAt ==
  UNION { {<<b, k>> : k \in 1..Len(blocks[b].insts)} : b \in 1..Len(blocks) }
I(p) == blocks[p[1]].insts[p[2]]
OpsOf(b) == [k \in 1..Len(blocks[b].insts) |-> blocks[b].insts[k].op]

\* What LLVM's verifier asks of the control-flow graph: every block ends with
\* its one terminator, every branch targets a block of the function, and none
\* targets the entry block.
WellFormedCFG ==
  \A b \in 1..Len(blocks) :
    LET is == blocks[b].insts IN
    /\ Len(is) >= 1
    /\ is[Len(is)].op \in Terminators
    /\ \A k \in 1..(Len(is) - 1) : is[k].op \notin Terminators
    /\ is[Len(is)].op = "br" => is[Len(is)].a \in 2..Len(blocks)
    /\ is[Len(is)].op = "condbr" =>
         is[Len(is)].a \in 2..Len(blocks) /\ is[Len(is)].b \in 2..Len(blocks)

\* The finalisation is in place: free, then ret 0, at the end of the
\* insertion block.
Finalised ==
  LET is == blocks[cur].insts IN
  /\ Len(is) >= 2
  /\ is[Len(is) - 1].op = "call_free"
  /\ is[Len(is)].op = "ret" /\ is[Len(is)].a = 0

Executing == gen = "done" /\ run = "running" /\ AtInst

\* ---------------------------------------------------------------------- claims

\* C1: in a balanced program, when execution reaches a `[` with the cell under
\* the pointer equal to 0, no operation of the loop's body is executed: the
\* instruction executed after the jump emitted for the `[` does not belong to
\* a character between the `[` and its `]`.
C1_ZeroCellSkipsBody ==
  [][ ( /\ Executing
        /\ Balanced(code)
        /\ CurInst.op = "br"
        /\ mem = "live" /\ counter \in 0..(tape_len - 1)
        /\ Cell(counter) = 0 )
      => LET open == CurInst.src
             nxt == blocks[xpc'[1]].insts[xpc'[2]]
         IN ~(open < nxt.src /\ nxt.src < MatchClose(code, open)) ]_vars

\* C2: when the input has a `]` met with an empty loop stack, generate never
\* completes, the scan never passes that `]`, nothing is handed on (main stays
\* at compile_module and writes no object file), and no conditional branch is
\* emitted for that `]`.
C2_ExtraCloseFails ==
  \A j \in 1..Len(code) :
    FirstExtraClose(code, j) =>
      /\ gen /= "done"
      /\ pos < j
      /\ mainpc = "compile" /\ obj = "absent"
      /\ \A p \in InstAt : ~(I(p).op = "condbr" /\ I(p).src = j)

C2_Witness ==
  /\ gen = "panicked"
  /\ FirstExtraClose(code, pos + 1)
  /\ \E p \in InstAt : I(p).op = "icmp_ne" /\ I(p).src = pos + 1

\* C3: before generate completes the program holds no release of the tape;
\* once it has completed it holds exactly one, emitted by the finalisation at
\* the end of the insertion block and followed at once by the one return, of
\* status 0; a run frees at most once, has freed exactly once when it returns,
\* never touches the tape after the release, and after the release only
\* returns.
C3_SingleRelease ==
  LET frees == {p \in InstAt : I(p).op = "call_free"}
      rets == {p \in InstAt : I(p).op = "ret"}
  IN /\ gen /= "done" => frees = {} /\ rets = {}
     /\ gen = "done" =>
          /\ frees = {<<cur, Len(blocks[cur].insts) - 1>>}
          /\ rets = {<<cur, Len(blocks[cur].insts)>>}
          /\ Finalised
          /\ \A p \in InstAt : I(p).src > Len(code) <=> p \in frees \cup rets
     /\ nfree <= 1
     /\ run = "returned" => nfree = 1 /\ mem = "freed" /\ retval = 0
     /\ fault /= "use_after_free"
     /\ (mem = "freed" /\ run = "running") => (AtInst /\ CurInst.op = "ret")

C3_Witness ==
  /\ run = "returned" /\ nfree = 1
  /\ \E k \in 1..Len(code) : code[k] = "]"
  /\ Len(out) > 0

\* C4 as claimed: for an input of ignored characters only, the emitted
\* program is exactly calloc, free, ret in one block.
C4_OnlyAllocReleaseReturn ==
  (gen = "done" /\ \A k \in 1..Len(code) : code[k] \notin Primitives) =>
    /\ Len(blocks) = 1
    /\ OpsOf(1) = <<"call_calloc", "call_free", "ret">>

\* C4 as amended: for an input of ignored characters only, the emitted
\* program is one block holding exactly the startup sequence (the counter's
\* alloca, the store of 0 to it, calloc(heap_size, 1)), then free, then ret 0.
C4_StartupReleaseReturn ==
  (gen = "done" /\ \A k \in 1..Len(code) : code[k] \notin Primitives) =>
    /\ Len(blocks) = 1
    /\ OpsOf(1) = <<"alloca", "store_counter_zero", "call_calloc", "call_free", "ret">>
    /\ blocks[1].insts[3].a = heap_size /\ blocks[1].insts[3].b = 1
    /\ blocks[1].insts[5].a = 0

C4_Witness ==
  /\ gen = "done"
  /\ Len(code) = 2 /\ code[1] = "x" /\ code[2] = "x"
  /\ Len(blocks[1].insts) = 5

\* C5 as claimed: when the classical program, compiled with the default tape
\* of 30000 cells, has returned, it has written exactly "Hello World!\n".
HelloWorldBytes == <<72, 101, 108, 108, 111, 32, 87, 111, 114, 108, 100, 33, 10>>
C5_PrintsHelloWorld == run = "returned" => out = HelloWorldBytes

\* C5 as amended: the program writes a prefix of "Hello" at every moment and
\* meets no fault, has written exactly the five bytes "Hello" when it
\* returns, returns status 0, and does return.
HelloBytes == <<72, 101, 108, 108, 111>>
HelloSafe ==
  /\ run /= "undefined"
  /\ gen /= "panicked"
  /\ Len(out) <= Len(HelloBytes)
  /\ out = SubSeq(HelloBytes, 1, Len(out))
  /\ run = "returned" => out = HelloBytes /\ retval = 0
C5_PrintsHello == []HelloSafe /\ <>(run = "returned")

C5_Witness ==
  /\ code = HelloSource /\ tape_len = DefaultHeap
  /\ run = "returned" /\ retval = 0
  /\ out = HelloBytes

\* C6: for `,+-` and `,-+` and every value v the cell holds after the read,
\* the cell holds v while the first of the two operations runs, (v+1) mod 256
\* respectively (v-1) mod 256 while the second runs, and v again afterwards;
\* the pointer stays 0 and the run meets no fault.
ReadValue == IF stdin = <<>> THEN CellMod - 1 ELSE stdin[1]
Delta == IF code[2] = "+" THEN 1 ELSE CellMod - 1
C6_IncDecIsNoop ==
  /\ run /= "undefined"
  /\ (Executing /\ mem = "live") =>
       /\ counter = 0
       /\ CurInst.src = 2 => Cell(0) = ReadValue
       /\ CurInst.src = 3 => Cell(0) = (ReadValue + Delta) % CellMod
       /\ CurInst.src = 4 => Cell(0) = ReadValue
  /\ run = "returned" => Cell(0) = ReadValue

C6_Witness ==
  /\ Executing /\ mem = "live"
  /\ CurInst.src = 3 /\ code[2] = "+"
  /\ ReadValue = CellMod - 1 /\ Cell(0) = 0

\* C7: when main has returned after attempting the link step with the object
\* file written, the object file has been removed.
C7_ObjectRemoved ==
  (mainpc \in {"ok", "err"} /\ ld /= "none" /\ obj /= "absent") => obj = "removed"

\* C8: for a balanced input, the loop stack holds the blocks of the `[` still
\* open, innermost last; every conditional branch, emitted for a `]`, has as
\* non-zero arm the block "loop" created by the matching `[` and as zero arm
\* the block "loop_after" created by that `]`; every scanned `]` has its
\* branch; and the instructions of the characters that follow a `]`, up to
\* and including the next bracket, are in its after block.
C8_LifoMatching ==
  Balanced(code) =>
    /\ {blocks[loop_stack[n]].src : n \in 1..Len(loop_stack)} = OpenAt(code, pos)
    /\ \A n \in 1..(Len(loop_stack) - 1) :
         blocks[loop_stack[n]].src < blocks[loop_stack[n + 1]].src
    /\ \A p \in InstAt :
         I(p).op = "condbr" =>
           /\ code[I(p).src] = "]"
           /\ blocks[I(p).a].name = "loop"
           /\ blocks[I(p).a].src = MatchOpen(code, I(p).src)
           /\ blocks[I(p).b].name = "loop_after"
           /\ blocks[I(p).b].src = I(p).src
           /\ \A q \in InstAt :
                (/\ I(q).src > I(p).src
                 /\ \A k \in (I(p).src + 1)..(I(q).src - 1) : code[k] \notin {"[", "]"})
                => q[1] = I(p).b
    /\ \A j \in 1..pos :
         code[j] = "]" => \E p \in InstAt : I(p).op = "condbr" /\ I(p).src = j

C8_Witness ==
  /\ gen = "done"
  /\ code = <<"[", "[", "]", "]">>
  /\ \E p \in InstAt : I(p).op = "condbr" /\ I(p).src = 3 /\ blocks[I(p).a].src = 2
  /\ \E p \in InstAt : I(p).op = "condbr" /\ I(p).src = 4 /\ blocks[I(p).a].src = 1

\* C9 as claimed: when generate completes with a `[` still open, the emitted
\* control-flow graph is ill-formed.
C9_UnclosedIsIllFormed ==
  (gen = "done" /\ loop_stack /= <<>>) => ~WellFormedCFG

\* C9 as amended: an input without an extra `]` never makes generate fail;
\* when generate completes with a `[` still open, the finalisation has been
\* emitted and the control-flow graph is well formed: every block ends with
\* its one terminator and every branch targets a block of the function.
C9_UnclosedIsWellFormed ==
  /\ NoExtraClose(code) => gen /= "panicked"
  /\ (gen = "done" /\ loop_stack /= <<>>) => (Finalised /\ WellFormedCFG)

C9_Witness ==
  /\ gen = "done" /\ Len(loop_stack) = 2
  /\ ~Balanced(code)
  /\ \E k \in 1..Len(code) : code[k] = "]"

\* C10: the loop stack is empty before the first character is scanned; for a
\* balanced input its depth after every prefix is the number of `[` minus the
\* number of `]` scanned, never negative, and it is empty once generate has
\* completed.
C10_StackDepth ==
  /\ pos = 0 => loop_stack = <<>>
  /\ Balanced(code) =>
       /\ Len(loop_stack) = Depth(code, pos)
       /\ Depth(code, pos) >= 0
       /\ (gen = "done" \/ pos = Len(code)) => loop_stack = <<>>

C10_Witness ==
  /\ Balanced(code) /\ gen = "done" /\ loop_stack = <<>>
  /\ \E k \in 1..Len(code) : Depth(code, k) = 2

=============================================================================
